---------------------------- MODULE Spec2Model ----------------------------
(* Journalist interface of the submission platform (securedrop/journalist.py):
   login with throttling, and the source-collection operations (delete,
   rename, reply).  The request handlers are modelled from journalist.py;
   Journalist.login, store.* , crypto_util.* and worker.* live in modules
   that are not part of the source tree at hand and are modelled from the
   design document.                                                        *)
EXTENDS Integers, Sequences, FiniteSets, TLC

(***************************************************************************)
(* Bounds                                                                  *)
(***************************************************************************)
MaxTime == 71        \* the clock stops advancing here
MaxFails == 5        \* cap of the failed-attempt counter
MaxRequests == 3     \* requests served in one behaviour

(***************************************************************************)
(* Program constants                                                       *)
(***************************************************************************)
LOGIN_ATTEMPT_PERIOD == 60            \* Journalist._LOGIN_ATTEMPT_PERIOD (cooldown, seconds)
MAX_LOGIN_ATTEMPTS_PER_PERIOD == 3    \* throttle threshold

None == "None"                        \* no user
NoTime == 0 - 1                          \* a timestamp never set
Users == {"alice"}                    \* rows of the journalists table
Usernames == Users \cup {"mallory"}   \* "mallory" is no row of the table
Passwords == {"pw", "wrong"}
Tokens == {"otp", "stale"}
TickSteps == {10, 61}

VARIABLES
    now,          \* datetime.utcnow(), in seconds
    is_totp,      \* Journalist.is_totp
    failCount,    \* User.failed-attempt count
    lastFail,     \* User.last-failed-attempt timestamp
    last_access,  \* Journalist.last_access
    session_uid,  \* session['uid']
    resp,         \* the last request: its form, the state it found, its outcome
    streak        \* history: consecutive failed authentications of each user

authVars == <<now, is_totp, failCount, lastFail, last_access, session_uid, resp, streak>>

VARIABLES
    sources,      \* committed rows of the sources table, by filesystem_id
    subs,         \* committed rows of the submissions table, by id
    replies,      \* committed rows of the replies table, in commit order
    files,        \* the files under the store directory
    dirs,         \* the source directories that exist
    keys,         \* the sources that have a reply keypair
    queue,        \* jobs enqueued and not yet run
    next_job,     \* the id the next enqueued job gets
    req,          \* the request each worker is serving
    nreq,         \* requests started
    ev,           \* the last step taken: who, what, and the state it found
    stars         \* the SourceStar rows of each source, oldest first

colVars == <<sources, subs, replies, files, dirs, keys, queue, next_job, req, nreq, ev,
             stars>>

vars == <<authVars, colVars>>

Min(a, b) == IF a < b THEN a ELSE b

(***************************************************************************)
(* Journalist (db.py), from the design document, section 4.1               *)
(***************************************************************************)
valid_password(u, password) == password = "pw"

verify_token(u, token) == token = "otp"

\* time since the most recent failure of u; NoTime when u never failed
SinceLastFail(u) == IF lastFail[u] = NoTime THEN NoTime ELSE now - lastFail[u]

InWindow(u) == lastFail[u] # NoTime /\ now - lastFail[u] < LOGIN_ATTEMPT_PERIOD

throttle_login(u) == InWindow(u) /\ failCount[u] > MAX_LOGIN_ATTEMPTS_PER_PERIOD

\* The exception Journalist.login raises, "ok" when it returns the user.
JournalistLogin(username, password, token) ==
    IF username \notin Users THEN "NoResultFound"
    ELSE IF throttle_login(username) THEN "LoginThrottledException"
    ELSE IF ~valid_password(username, password) THEN "WrongPasswordException"
    ELSE IF ~verify_token(username, token) THEN "BadTokenException"
    ELSE "ok"

\* whether Journalist.login compared the password or the token
Compared(e) == e \in {"WrongPasswordException", "BadTokenException", "ok"}

\* the wait a LoginThrottledException carries
RemainingWait(u) == LOGIN_ATTEMPT_PERIOD - (now - lastFail[u])

\* the failure counters Journalist.login persists
LoginCounters(e, u) ==
    IF e \in {"WrongPasswordException", "BadTokenException"}
    THEN [count |-> failCount[u] + 1, at |-> now]
    ELSE IF e = "ok" THEN [count |-> 0, at |-> lastFail[u]]
    ELSE [count |-> failCount[u], at |-> lastFail[u]]

(***************************************************************************)
(* login(), journalist.py 104-143                                          *)
(***************************************************************************)
\* lines 114-130: the message flashed for the exception e
MutLoginFlashedMsgNoThrottle(e, username) ==
    <<"Login failed.">> \o
        (IF username \in Users /\ is_totp[username]
         THEN <<"Please wait for a new two-factor token before logging in again.">>
         ELSE <<>>)

login_flashed_msg(e, username) ==
    <<"Login failed.">> \o
        (IF e = "LoginThrottledException"
         THEN <<"Please wait at least {} seconds before logging in again.">>
         ELSE IF username \in Users /\ is_totp[username]
         THEN <<"Please wait for a new two-factor token before logging in again.">>
         ELSE <<>>)

\* line 120: the number formatted into the throttle message
MutFlashedSecondsDropped(e) == 0

login_flashed_seconds(e) ==
    IF e = "LoginThrottledException" THEN LOGIN_ATTEMPT_PERIOD ELSE 0

\* lines 135-138: the access metadata the handler commits
MutLoginLastAccessKept(e, u) == last_access[u]

login_last_access(e, u) == IF e = "ok" THEN now ELSE last_access[u]

\* line 140: the session after the request
MutLoginSessionAlways(e, username) ==
    IF username \in Users THEN username ELSE session_uid

login_session(e, username) == IF e = "ok" THEN username ELSE session_uid

\* history: the streak of failed authentications of u after outcome e
StreakAfter(e, u) ==
    IF e = "ok" THEN [n |-> 0, first |-> NoTime]
    ELSE IF InWindow(u) /\ streak[u].n > 0
    THEN [n |-> Min(streak[u].n + 1, MaxFails), first |-> streak[u].first]
    ELSE [n |-> 1, first |-> now]

\* what the request found: the state of the named user before the handler ran
Found(username) ==
    IF username \in Users
    THEN [failCount |-> failCount[username], lastFail |-> lastFail[username],
          last_access |-> last_access[username], session |-> session_uid,
          within |-> InWindow(username), streak |-> streak[username].n,
          span |-> IF streak[username].n > 0
                   THEN lastFail[username] - streak[username].first ELSE 0,
          since |-> SinceLastFail(username)]
    ELSE [failCount |-> 0, lastFail |-> NoTime, last_access |-> NoTime,
          session |-> session_uid, within |-> FALSE, streak |-> 0, span |-> 0,
          since |-> NoTime]

login(username, password, token) ==
    LET e == JournalistLogin(username, password, token) IN
    /\ e \in {"WrongPasswordException", "BadTokenException"}
          => failCount[username] < MaxFails
    /\ failCount' = [u \in Users |->
           IF u = username THEN LoginCounters(e, u).count ELSE failCount[u]]
    /\ lastFail' = [u \in Users |->
           IF u = username THEN LoginCounters(e, u).at ELSE lastFail[u]]
    /\ last_access' = [u \in Users |->
           IF u = username THEN login_last_access(e, u) ELSE last_access[u]]
    /\ session_uid' = login_session(e, username)
    /\ streak' = [u \in Users |->
           IF u = username THEN StreakAfter(e, u) ELSE streak[u]]
    /\ resp' = [kind |-> "login", username |-> username, password |-> password,
                token |-> token, at |-> now, found |-> Found(username),
                exc |-> e, compared |-> Compared(e),
                exc_wait |-> IF e = "LoginThrottledException"
                             THEN RemainingWait(username) ELSE 0,
                flash |-> IF e = "ok" THEN <<>> ELSE login_flashed_msg(e, username),
                flash_seconds |-> IF e = "ok" THEN 0 ELSE login_flashed_seconds(e),
                redirect |-> IF e = "ok" THEN "index" ELSE "login.html"]
    /\ UNCHANGED <<now, is_totp>>
    /\ UNCHANGED colVars

Login == \E username \in Usernames, password \in Passwords, token \in Tokens :
            login(username, password, token)

\* logout(), journalist.py 146-149
logout ==
    /\ session_uid # None
    /\ session_uid' = None
    /\ resp' = [kind |-> "logout", username |-> session_uid, password |-> None,
                token |-> None, at |-> now, found |-> Found(session_uid),
                exc |-> "ok", compared |-> FALSE, exc_wait |-> 0,
                flash |-> <<>>, flash_seconds |-> 0, redirect |-> "index"]
    /\ UNCHANGED <<now, is_totp, failCount, lastFail, last_access, streak>>
    /\ UNCHANGED colVars

\* the clock
Tick == \E d \in TickSteps :
    /\ now + d <= MaxTime
    /\ now' = now + d
    /\ UNCHANGED <<is_totp, failCount, lastFail, last_access, session_uid, resp, streak>>
    /\ UNCHANGED colVars

AuthInit ==
    /\ now = 0
    /\ is_totp \in [Users -> BOOLEAN]
    /\ failCount = [u \in Users |-> 0]
    /\ lastFail = [u \in Users |-> NoTime]
    /\ last_access = [u \in Users |-> NoTime]
    /\ session_uid = None
    /\ resp = [kind |-> "none"]
    /\ streak = [u \in Users |-> [n |-> 0, first |-> NoTime]]

AuthNext == Login \/ logout \/ Tick

(***************************************************************************)
(* Claims about login                                                      *)
(***************************************************************************)
IsLogin == resp.kind = "login"

ThrottleMsg == <<"Login failed.",
                 "Please wait at least {} seconds before logging in again.">>

\* C1: a login of an existing user that follows more than
\* MAX_LOGIN_ATTEMPTS_PER_PERIOD consecutive failed authentications, all of
\* them and the login itself within the cooldown window of the user's most
\* recent failure, is rejected as throttled, with no password or token
\* comparison, whatever credentials it carries.
C1_ThrottledAfterStreak ==
    (IsLogin /\ resp.username \in Users
        /\ resp.found.streak > MAX_LOGIN_ATTEMPTS_PER_PERIOD /\ resp.found.within)
    => (/\ resp.exc = "LoginThrottledException"
        /\ ~resp.compared
        /\ resp.flash = ThrottleMsg)

\* a throttled login that carried the right password and token
C1_Witness ==
    /\ IsLogin /\ resp.username \in Users
    /\ resp.found.streak > MAX_LOGIN_ATTEMPTS_PER_PERIOD /\ resp.found.within
    /\ resp.password = "pw" /\ resp.token = "otp"
    /\ resp.exc = "LoginThrottledException"

\* C2: after a successful login the user's failure counter is zero and
\* last_access is the time of that login, whatever the counter was before.
C2_SuccessResets ==
    (IsLogin /\ resp.exc = "ok")
    => (/\ failCount[resp.username] = 0
        /\ last_access[resp.username] = resp.at)

\* a successful login of a user whose counter was above the threshold
C2_Witness ==
    /\ IsLogin /\ resp.exc = "ok"
    /\ resp.found.failCount > MAX_LOGIN_ATTEMPTS_PER_PERIOD
    /\ resp.found.last_access # resp.at

\* C3 (as stated): with threshold 3 and cooldown 60, the login that follows
\* exactly three failures made within 10 seconds, itself within the cooldown,
\* is throttled; and a right password and token 61 seconds or more after the
\* last failure log the user in.
C3_ScenarioAsStated ==
    /\ (IsLogin /\ resp.username \in Users
           /\ resp.found.streak = 3 /\ resp.found.failCount = 3
           /\ resp.found.span <= 10 /\ resp.found.within)
       => resp.exc = "LoginThrottledException"
    /\ (IsLogin /\ resp.username \in Users
           /\ resp.found.since >= 61
           /\ resp.password = "pw" /\ resp.token = "otp")
       => resp.exc = "ok"

\* C4 (as stated): every failed login that is not throttled flashes the
\* message a login with an unknown username flashes.
C4_SameMessageAsUnknownUser ==
    (IsLogin /\ resp.exc \in {"NoResultFound", "WrongPasswordException",
                              "BadTokenException"})
    => resp.flash = login_flashed_msg("NoResultFound", "mallory")

\* C5: a throttled login leaves the failure counter, the last-failure time,
\* last_access and the session as it found them; the counter grows only by a
\* failed login that was not throttled, and then by exactly one.
C5_ThrottledChangesNothing ==
    (IsLogin /\ resp.username \in Users) =>
        LET u == resp.username IN
        /\ resp.exc = "LoginThrottledException"
             => (/\ failCount[u] = resp.found.failCount
                 /\ lastFail[u] = resp.found.lastFail
                 /\ last_access[u] = resp.found.last_access
                 /\ session_uid = resp.found.session)
        /\ failCount[u] > resp.found.failCount
             => resp.exc \in {"WrongPasswordException", "BadTokenException"}
        /\ resp.exc \in {"WrongPasswordException", "BadTokenException"}
             => failCount[u] = resp.found.failCount + 1

\* a throttled login with the right credentials while nobody is logged in
C5_Witness ==
    /\ IsLogin /\ resp.exc = "LoginThrottledException"
    /\ resp.password = "pw" /\ resp.token = "otp"
    /\ session_uid = None
    /\ failCount[resp.username] > MAX_LOGIN_ATTEMPTS_PER_PERIOD

Throttled == IsLogin /\ resp.exc = "LoginThrottledException"

Workers == {"w1", "w2"}               \* request workers
Sids == {"c1", "c2"}                  \* Source.filesystem_id
SubIds == {1, 2}                      \* Submission.id
Designations == {"Alpha One", "Beta Two", "Gamma Six"}
Messages == {"", "hello"}
NoRow == [absent |-> TRUE]
Idle == [op |-> "idle"]

\* Source.journalist_filename (db.py): lower case, blanks to underscores
journalist_filename(designation) ==
    CASE designation = "Alpha One" -> "alpha_one"
      [] designation = "Beta Two" -> "beta_two"
      [] designation = "Gamma Six" -> "gamma_six"

Fn(index, name, type) == [index |-> index, name |-> name, type |-> type]

\* store.path(sid, filename)
path(sid, filename) == [sid |-> sid, filename |-> filename]

Live(sid) == sources[sid] # NoRow

\* Source.collection: the ids of the submissions of sid, in id order
collectionSet(sid) == {i \in SubIds : subs[i] # NoRow /\ subs[i].source = sid}

RECURSIVE SortedIds(_)
SortedIds(S) ==
    IF S = {} THEN <<>>
    ELSE LET m == CHOOSE x \in S : \A y \in S : x <= y
         IN <<m>> \o SortedIds(S \ {m})

collection(sid) == SortedIds(collectionSet(sid))

Snapshot == [sources |-> sources, subs |-> subs, replies |-> replies,
             files |-> files, dirs |-> dirs, keys |-> keys, queue |-> queue]

Event(w, op, step, sid) ==
    [w |-> w, op |-> op, step |-> step, sid |-> sid, before |-> Snapshot]

SetReq(w, r) == req' = [req EXCEPT ![w] = r]

CanStart(w) == req[w] = Idle /\ nreq < MaxRequests

(***************************************************************************)
(* get_source(), journalist.py 48-55: the row, or abort(404)               *)
(***************************************************************************)
get_source_aborts(sid) == ~Live(sid)

NotFound(w, op, sid) ==
    /\ get_source_aborts(sid)
    /\ ev' = Event(w, op, "abort", sid) @@ [status |-> 404, flashes |-> <<>>]

(***************************************************************************)
(* delete_collection(), journalist.py 475-486, called by                   *)
(* col_delete_single(), 548-557                                            *)
(***************************************************************************)
\* the statements of delete_collection in program order (lines 477, 480, 483-485)
MutDeleteRowFirst(sid) == <<"delete_row", "enqueue", "delete_reply_keypair">>

MutDeleteSkipsEmpty(sid) ==
    IF collectionSet(sid) = {} THEN <<"enqueue">>
    ELSE <<"enqueue", "delete_reply_keypair", "delete_row">>

MutDeleteKeypairLast(sid) == <<"enqueue", "delete_row", "delete_reply_keypair">>

MutDeleteNeverEnqueues(sid) == <<"delete_reply_keypair", "delete_row">>

delete_collection_steps(sid) == <<"enqueue", "delete_reply_keypair", "delete_row">>

\* line 477: the job delete_collection enqueues for source_id
delete_collection_jobs(sid, job) ==
    {[job |-> job, func |-> "delete_source_directory", arg |-> sid]}

\* col_delete_single, line 552: get_source(sid) before delete_collection(sid)
StartDelete(w, sid) ==
    /\ CanStart(w)
    /\ nreq' = nreq + 1
    /\ \/ /\ NotFound(w, "col_delete_single", sid)
          /\ UNCHANGED req
       \/ /\ ~get_source_aborts(sid)
          /\ SetReq(w, [op |-> "col_delete_single", sid |-> sid, pc |-> 1,
                        designation |-> sources[sid].journalist_designation,
                        job |-> 0, enqueued |-> {}, trace |-> <<>>])
          /\ ev' = Event(w, "col_delete_single", "start", sid)
    /\ UNCHANGED <<sources, subs, replies, files, dirs, keys, queue, next_job>>
    /\ UNCHANGED <<authVars, stars>>

\* one statement of delete_collection; the last one returns and
\* col_delete_single flashes and redirects (lines 554-557)
DeleteStep(w) ==
    /\ req[w].op = "col_delete_single"
    /\ LET r == req[w]
           sid == r.sid
           step == delete_collection_steps(sid)[r.pc]
           last == r.pc = Len(delete_collection_steps(sid))
           aborts == step = "delete_row" /\ get_source_aborts(sid)
           job == IF step = "enqueue" THEN next_job ELSE r.job
           enqueued == IF step = "enqueue"
                       THEN r.enqueued \cup delete_collection_jobs(sid, next_job)
                       ELSE r.enqueued
           trace == Append(r.trace, step)
       IN
       /\ IF step = "enqueue"
          THEN /\ queue' = queue \cup delete_collection_jobs(sid, next_job)
               /\ next_job' = next_job + 1
          ELSE UNCHANGED <<queue, next_job>>
       /\ IF step = "delete_reply_keypair"
          THEN keys' = keys \ {sid}
          ELSE UNCHANGED keys
       /\ IF step = "delete_row" /\ ~aborts
          THEN /\ sources' = [sources EXCEPT ![sid] = NoRow]
               /\ subs' = [i \in SubIds |->
                      IF i \in collectionSet(sid) THEN NoRow ELSE subs[i]]
          ELSE UNCHANGED <<sources, subs>>
       /\ IF aborts
          THEN /\ SetReq(w, Idle)
               /\ ev' = Event(w, r.op, "abort", sid)
                          @@ [status |-> 404, flashes |-> <<>>, trace |-> r.trace,
                              job |-> job, enqueued |-> enqueued]
          ELSE IF last
          THEN /\ SetReq(w, Idle)
               /\ ev' = Event(w, r.op, "return", sid)
                          @@ [status |-> 302, trace |-> trace, job |-> job,
                              enqueued |-> enqueued,
                              flashes |-> <<[msg |-> "{}'s collection deleted",
                                             arg |-> r.designation,
                                             category |-> "notification"]>>]
          ELSE /\ SetReq(w, [r EXCEPT !.pc = r.pc + 1, !.job = job,
                                       !.enqueued = enqueued, !.trace = trace])
               /\ ev' = Event(w, r.op, step, sid)
                          @@ [trace |-> trace, job |-> job, enqueued |-> enqueued]
    /\ UNCHANGED <<replies, files, dirs, nreq>>
    /\ UNCHANGED <<authVars, stars>>

(***************************************************************************)
(* The rq worker runs an enqueued job (worker.py, store.py)                *)
(***************************************************************************)
RunTask ==
    \E t \in queue :
       /\ queue' = queue \ {t}
       /\ IF t.func = "delete_source_directory"
          THEN /\ dirs' = dirs \ {t.arg}
               /\ files' = {f \in files : f.sid # t.arg}
          ELSE /\ dirs' = dirs
               /\ files' = files \ {t.arg}
       /\ ev' = Event("rq", "task", t.func, t.arg) @@ [job |-> t.job]
       /\ UNCHANGED <<sources, subs, replies, keys, next_job, req, nreq>>
       /\ UNCHANGED <<authVars, stars>>

(***************************************************************************)
(* reply(), journalist.py 592-638                                          *)
(***************************************************************************)
\* line 610: "if not msg"
MutReplyAcceptsEmpty(msg) == FALSE

reply_rejects(msg) == msg = ""

\* lines 614-616: the counter and the filename of the reply, from the Source
\* object that setup_g loaded (lines 65-69)
reply_count(source) == source.interaction_count + 1

reply_filename(source) ==
    Fn(reply_count(source), journalist_filename(source.journalist_designation), "reply")

\* setup_g (lines 58-69) loads g.source; lines 608-612 reject an empty message
StartReply(w, sid, msg) ==
    /\ CanStart(w)
    /\ nreq' = nreq + 1
    /\ \/ /\ get_source_aborts(sid)
          /\ ev' = Event(w, "reply", "abort", sid)
                     @@ [msg |-> msg, status |-> 404, flashes |-> <<>>]
          /\ UNCHANGED req
       \/ /\ ~get_source_aborts(sid)
          /\ reply_rejects(msg)
          /\ UNCHANGED req
          /\ ev' = Event(w, "reply", "rejected", sid)
                     @@ [msg |-> msg, status |-> 302, redirect |-> "col",
                         flashes |-> <<[msg |-> "You cannot send an empty reply!",
                                        category |-> "error"]>>]
       \/ /\ ~get_source_aborts(sid)
          /\ ~reply_rejects(msg)
          /\ SetReq(w, [op |-> "reply", sid |-> sid, pc |-> "encrypt", msg |-> msg,
                        source |-> sources[sid]])
          /\ ev' = Event(w, "reply", "start", sid) @@ [msg |-> msg]
    /\ UNCHANGED <<sources, subs, replies, files, dirs, keys, queue, next_job>>
    /\ UNCHANGED <<authVars, stars>>

\* lines 614-619: crypto_util.encrypt writes the artifact; it raises when the
\* source has no key or no directory, and the request ends with a 500
ReplyEncrypt(w) ==
    /\ req[w].op = "reply" /\ req[w].pc = "encrypt"
    /\ LET r == req[w]
           ok == r.sid \in keys /\ r.sid \in dirs
           filename == reply_filename(r.source)
       IN
       IF ok
       THEN /\ files' = files \cup {path(r.sid, filename)}
            /\ SetReq(w, [r EXCEPT !.pc = "commit"])
            /\ ev' = Event(w, "reply", "encrypt", r.sid)
                       @@ [msg |-> r.msg, filename |-> filename]
       ELSE /\ UNCHANGED files
            /\ SetReq(w, Idle)
            /\ ev' = Event(w, "reply", "abort", r.sid)
                       @@ [msg |-> r.msg, status |-> 500, flashes |-> <<>>]
    /\ UNCHANGED <<sources, subs, replies, dirs, keys, queue, next_job, nreq>>
    /\ UNCHANGED <<authVars, stars>>

\* what lines 620-624 commit: the counter as this request computed it, and
\* the Reply row
reply_committed_count(source, sid) == reply_count(source)

\* lines 620-638: add the Reply and commit; any exception is flashed
ReplyCommit(w) ==
    /\ req[w].op = "reply" /\ req[w].pc = "commit"
    /\ LET r == req[w]
           filename == reply_filename(r.source)
       IN
       \/ /\ Live(r.sid)
          /\ sources' = [sources EXCEPT ![r.sid].interaction_count =
                                          reply_committed_count(r.source, r.sid)]
          /\ replies' = Append(replies, [journalist |-> "alice", source |-> r.sid,
                                         filename |-> filename])
          /\ ev' = Event(w, "reply", "commit", r.sid)
                     @@ [msg |-> r.msg, filename |-> filename, status |-> 302,
                         redirect |-> "col",
                         flashes |-> <<[msg |-> "Thanks! Your reply has been stored.",
                                        category |-> "notification"]>>]
       \/ /\ UNCHANGED <<sources, replies>>
          /\ ev' = Event(w, "reply", "commit_failed", r.sid)
                     @@ [msg |-> r.msg, filename |-> filename, status |-> 302,
                         redirect |-> "col",
                         flashes |-> <<[msg |-> "An unexpected error occurred!",
                                        category |-> "error"]>>]
    /\ SetReq(w, Idle)
    /\ UNCHANGED <<subs, files, dirs, keys, queue, next_job, nreq>>
    /\ UNCHANGED <<authVars, stars>>

(***************************************************************************)
(* generate_code(), journalist.py 641-659                                  *)
(***************************************************************************)
\* crypto_util.display_id(): a designation no source has
display_id == Designations \ {sources[s].journalist_designation : s \in {x \in Sids : Live(x)}}

\* store.rename_submission(sid, filename, journalist_filename): the new name,
\* which keeps the index and the type
rename_submission(filename, name) == Fn(filename.index, name, filename.type)

Prefix(seq, k) == {seq[i] : i \in 1..k}

\* the rows and the designation the record store holds after the loop of
\* lines 647-651 raised at an item: nothing was committed (line 652 is not
\* reached, shutdown_session, lines 41-45, discards the session)
MutRenameKeepsPartial(sid, designation, renamed) ==
    [sources |-> [sources EXCEPT ![sid].journalist_designation = designation],
     subs |-> [i \in SubIds |->
                 IF i \in renamed
                 THEN [subs[i] EXCEPT !.filename =
                          rename_submission(@, journalist_filename(designation))]
                 ELSE subs[i]]]

generate_code_failed(sid, designation, renamed) ==
    [sources |-> sources, subs |-> subs]

\* setup_g loads g.source; lines 644-651 pick the designation and rename the
\* files one by one; a rename that raises ends the request with a 500
StartRename(w, sid) ==
    /\ CanStart(w)
    /\ nreq' = nreq + 1
    /\ \/ /\ NotFound(w, "generate_code", sid)
          /\ UNCHANGED <<req, files, sources, subs>>
       \/ /\ ~get_source_aborts(sid)
          /\ \E designation \in display_id :
             LET items == collection(sid)
                 name == journalist_filename(designation)
                 OnDisk(i) == path(sid, subs[i].filename) \in files
             IN \E k \in 0..Len(items) :
                /\ \A j \in 1..k : OnDisk(items[j])
                /\ files' = (files \ {path(sid, subs[i].filename) : i \in Prefix(items, k)})
                              \cup {path(sid, rename_submission(subs[i].filename, name)) :
                                       i \in Prefix(items, k)}
                /\ IF k = Len(items)
                   THEN /\ SetReq(w, [op |-> "generate_code", sid |-> sid,
                                      pc |-> "commit", designation |-> designation,
                                      original |-> sources[sid].journalist_designation,
                                      items |-> collectionSet(sid)])
                        /\ UNCHANGED <<sources, subs>>
                        /\ ev' = Event(w, "generate_code", "start", sid)
                                   @@ [designation |-> designation]
                   ELSE /\ UNCHANGED req
                        /\ sources' = generate_code_failed(sid, designation,
                                                           Prefix(items, k)).sources
                        /\ subs' = generate_code_failed(sid, designation,
                                                        Prefix(items, k)).subs
                        /\ ev' = Event(w, "generate_code", "abort", sid)
                                   @@ [designation |-> designation, status |-> 500,
                                       failed |-> items[k + 1], flashes |-> <<>>]
    /\ UNCHANGED <<replies, dirs, keys, queue, next_job>>
    /\ UNCHANGED <<authVars, stars>>

\* line 652: commit the designation and the filenames; lines 654-659
RenameCommit(w) ==
    /\ req[w].op = "generate_code" /\ req[w].pc = "commit"
    /\ LET r == req[w]
           name == journalist_filename(r.designation)
       IN
       IF Live(r.sid)
       THEN /\ sources' = [sources EXCEPT ![r.sid].journalist_designation = r.designation]
            /\ subs' = [i \in SubIds |->
                   IF i \in r.items /\ subs[i] # NoRow
                   THEN [subs[i] EXCEPT !.filename = rename_submission(@, name)]
                   ELSE subs[i]]
            /\ ev' = Event(w, "generate_code", "commit", r.sid)
                       @@ [designation |-> r.designation, status |-> 302,
                           flashes |-> <<[msg |-> "The source '{}' has been renamed to '{}'",
                                          arg |-> <<r.original, r.designation>>,
                                          category |-> "notification"]>>]
       ELSE /\ UNCHANGED <<sources, subs>>
            /\ ev' = Event(w, "generate_code", "abort", r.sid)
                       @@ [designation |-> r.designation, status |-> 500,
                           failed |-> 0, flashes |-> <<>>]
    /\ SetReq(w, Idle)
    /\ UNCHANGED <<replies, files, dirs, keys, queue, next_job, nreq>>
    /\ UNCHANGED <<authVars, stars>>

\* the collections as the source interface left them: c1 with two
\* submissions, c2 with none
InitialCount(sid) == IF sid = "c1" THEN 2 ELSE 0

ColInit ==
    /\ stars = [s \in Sids |-> <<>>]
    /\ sources = [s \in Sids |->
          [journalist_designation |-> IF s = "c1" THEN "Alpha One" ELSE "Beta Two",
           interaction_count |-> InitialCount(s)]]
    /\ subs = [i \in SubIds |->
          [source |-> "c1", downloaded |-> FALSE,
           filename |-> Fn(i, "alpha_one", IF i = 1 THEN "msg" ELSE "doc")]]
    /\ replies = <<>>
    /\ files = {path("c1", subs[i].filename) : i \in SubIds}
    /\ dirs = Sids
    /\ keys = Sids
    /\ queue = {}
    /\ next_job = 1
    /\ req = [w \in Workers |-> Idle]
    /\ nreq = 0
    /\ ev = [op |-> "none"]

ColNext ==
    \/ \E w \in Workers, sid \in Sids : StartDelete(w, sid)
    \/ \E w \in Workers : DeleteStep(w)
    \/ \E w \in Workers, sid \in Sids, msg \in Messages : StartReply(w, sid, msg)
    \/ \E w \in Workers : ReplyEncrypt(w)
    \/ \E w \in Workers : ReplyCommit(w)
    \/ \E w \in Workers, sid \in Sids : StartRename(w, sid)
    \/ \E w \in Workers : RenameCommit(w)
    \/ RunTask

(***************************************************************************)
(* Bulk export: col_download_unread(), col_download_all(), 510-529,        *)
(* bulk(), 675-698, download(), 722-745                                    *)
(***************************************************************************)
ColSets == (SUBSET Sids) \ {{}}       \* request.form.getlist('cols_selected')
DocNames == {Fn(i, "alpha_one", IF i = 1 THEN "msg" ELSE "doc") : i \in SubIds}

\* lines 513-516, 526-528, 681-682: the submissions an export resolves
UnreadOf(cols) ==
    {i \in SubIds : subs[i] # NoRow /\ subs[i].source \in cols /\ ~subs[i].downloaded}

AllOf(cols) == {i \in SubIds : subs[i] # NoRow /\ subs[i].source \in cols}

SelectedOf(sid, names) == {i \in collectionSet(sid) : subs[i].filename \in names}

\* lines 517 and 683: the handlers that test the resolved list for emptiness
export_checks_empty(kind) == kind \in {"unread", "selected"}

\* lines 518, 685: the message flashed for an empty list
export_empty_msg(kind) ==
    IF kind = "unread" THEN "No unread submissions in collections selected!"
    ELSE "No collections selected to download!"

\* store.get_bulk_archive(submissions): the files the archive holds
get_bulk_archive(items) == {path(subs[i].source, subs[i].filename) : i \in items}

\* lines 739-741: the submissions download() marks, given whether the archive
\* was built
MutDownloadMarksBeforeBuild(items, built) == items

MutDownloadMarksEverything(items, built) == IF built THEN SubIds ELSE {}

download_marked(items, built) == IF built THEN items ELSE {}

Mark(S) == [i \in SubIds |->
              IF i \in S /\ subs[i] # NoRow
              THEN [subs[i] EXCEPT !.downloaded = TRUE] ELSE subs[i]]

\* the handler up to line 734: resolve, test for emptiness, build the archive
Export(w, kind, cols, items) ==
    /\ CanStart(w)
    /\ nreq' = nreq + 1
    /\ LET e == Event(w, "download", "start", cols) @@ [kind |-> kind, items |-> items]
       IN
       IF \E sid \in cols : ~Live(sid)
       THEN /\ ev' = [e EXCEPT !.step = "abort"] @@ [status |-> 404, flashes |-> <<>>]
            /\ UNCHANGED <<req, subs>>
       ELSE IF items = {} /\ export_checks_empty(kind)
       THEN /\ ev' = [e EXCEPT !.step = "empty"]
                       @@ [status |-> 302, archive |-> None,
                           flashes |-> <<[msg |-> export_empty_msg(kind),
                                          category |-> "error"]>>]
            /\ UNCHANGED <<req, subs>>
       ELSE \/ /\ \A i \in items : path(subs[i].source, subs[i].filename) \in files
               /\ SetReq(w, [op |-> "download", kind |-> kind, cols |-> cols,
                             items |-> items, pc |-> "mark",
                             dirty |-> {i \in items : ~subs[i].downloaded},
                             archive |-> get_bulk_archive(items)])
               /\ ev' = [e EXCEPT !.step = "built"]
                          @@ [archive |-> get_bulk_archive(items)]
               /\ UNCHANGED subs
            \/ /\ ev' = [e EXCEPT !.step = "archive_failed"]
                          @@ [status |-> 500, archive |-> None, flashes |-> <<>>]
               /\ subs' = Mark(download_marked(items, FALSE))
               /\ UNCHANGED req
    /\ UNCHANGED <<sources, replies, files, dirs, keys, queue, next_job>>
    /\ UNCHANGED <<authVars, stars>>

col_download_unread(w, cols) == Export(w, "unread", cols, UnreadOf(cols))

col_download_all(w, cols) == Export(w, "all", cols, AllOf(cols))

bulk_download(w, sid, names) == Export(w, "selected", {sid}, SelectedOf(sid, names))

\* lines 738-745: mark, commit, send the archive
ExportCommit(w) ==
    /\ req[w].op = "download"
    /\ LET r == req[w]
           e == Event(w, "download", "commit", r.cols)
                  @@ [kind |-> r.kind, items |-> r.items, archive |-> r.archive]
       IN
       IF \E i \in r.dirty : subs[i] = NoRow
       THEN /\ ev' = [e EXCEPT !.step = "abort"] @@ [status |-> 500, flashes |-> <<>>]
            /\ UNCHANGED subs
       ELSE /\ ev' = e @@ [status |-> 200, flashes |-> <<>>]
            /\ subs' = Mark(download_marked(r.items, TRUE))
    /\ SetReq(w, Idle)
    /\ UNCHANGED <<sources, replies, files, dirs, keys, queue, next_job, nreq>>
    /\ UNCHANGED <<authVars, stars>>

(***************************************************************************)
(* bulk() with action 'delete', 675-694, and bulk_delete(), 708-719        *)
(***************************************************************************)
\* line 711: the job enqueued for one selected submission
bulk_delete_jobs(sid, filename, job) ==
    {[job |-> job, func |-> "secure_unlink", arg |-> path(sid, filename)]}

\* lines 712-713: the rows gone from the store after statement pc of the
\* loop over items; the commit follows the loop
MutBulkDeleteCommitsInLoop(items, pc) ==
    IF pc <= Len(items) THEN Prefix(items, pc) ELSE Prefix(items, Len(items))

bulk_delete_deleted(items, pc) ==
    IF pc <= Len(items) THEN {} ELSE Prefix(items, Len(items))

StartBulkDelete(w, sid, names) ==
    /\ CanStart(w)
    /\ nreq' = nreq + 1
    /\ LET items == SortedIds(SelectedOf(sid, names))
           e == Event(w, "bulk_delete", "start", sid) @@ [items |-> items]
       IN
       IF get_source_aborts(sid)
       THEN /\ ev' = [e EXCEPT !.step = "abort"] @@ [status |-> 404, flashes |-> <<>>]
            /\ UNCHANGED req
       ELSE IF items = <<>>
       THEN /\ ev' = [e EXCEPT !.step = "empty"]
                       @@ [status |-> 302,
                           flashes |-> <<[msg |-> "No collections selected to delete!",
                                          category |-> "error"]>>]
            /\ UNCHANGED req
       ELSE /\ ev' = e
            /\ SetReq(w, [op |-> "bulk_delete", sid |-> sid, items |-> items,
                          filenames |-> [i \in Prefix(items, Len(items)) |->
                                            subs[i].filename],
                          pc |-> 1, enqueued |-> {}])
    /\ UNCHANGED <<sources, subs, replies, files, dirs, keys, queue, next_job>>
    /\ UNCHANGED <<authVars, stars>>

\* one turn of the loop of lines 709-712, or the commit and the flash of
\* lines 713-719
BulkDeleteStep(w) ==
    /\ req[w].op = "bulk_delete"
    /\ LET r == req[w]
           n == Len(r.items)
           inLoop == r.pc <= n
           jobs == IF inLoop
                   THEN bulk_delete_jobs(r.sid, r.filenames[r.items[r.pc]], next_job)
                   ELSE {}
           enqueued == r.enqueued \cup jobs
           gone == bulk_delete_deleted(r.items, r.pc)
           e == Event(w, "bulk_delete", IF inLoop THEN "enqueue" ELSE "commit", r.sid)
                  @@ [items |-> r.items, filenames |-> r.filenames,
                      enqueued |-> enqueued, pc |-> r.pc]
       IN
       /\ queue' = queue \cup jobs
       /\ next_job' = IF inLoop THEN next_job + 1 ELSE next_job
       /\ subs' = [i \in SubIds |-> IF i \in gone THEN NoRow ELSE subs[i]]
       /\ IF inLoop
          THEN /\ SetReq(w, [r EXCEPT !.pc = r.pc + 1, !.enqueued = enqueued])
               /\ ev' = e
          ELSE /\ SetReq(w, Idle)
               /\ ev' = e @@ [status |-> 302,
                              flashes |-> <<[msg |-> IF n > 1 THEN "Submissions deleted."
                                                     ELSE "Submission deleted.",
                                             category |-> "notification"]>>]
    /\ UNCHANGED <<sources, replies, files, dirs, keys, nreq>>
    /\ UNCHANGED <<authVars, stars>>

BulkNext ==
    \/ \E w \in Workers, cols \in ColSets : col_download_unread(w, cols)
    \/ \E w \in Workers, cols \in ColSets : col_download_all(w, cols)
    \/ \E w \in Workers, sid \in Sids, names \in SUBSET DocNames :
          bulk_download(w, sid, names)
    \/ \E w \in Workers : ExportCommit(w)
    \/ \E w \in Workers, sid \in Sids, names \in SUBSET DocNames :
          StartBulkDelete(w, sid, names)
    \/ \E w \in Workers : BulkDeleteStep(w)
    \/ RunTask

(***************************************************************************)
(* Stars: make_star_true(), make_star_false(), add_star(), remove_star(),  *)
(* 408-439                                                                 *)
(***************************************************************************)
\* source.star, lines 410 and 419: the relationship loads one row, if any
source_star(sid) == IF stars[sid] = <<>> THEN NoRow ELSE stars[sid][1]

\* lines 410-414, 419-423: the rows of the source after the handler's
\* commit, given whether source.star was set when the handler read it
make_star(sid, found, starred) ==
    IF found /\ stars[sid] # <<>>
    THEN [stars[sid] EXCEPT ![1] = [starred |-> starred]]
    ELSE LET added == Append(stars[sid], [starred |-> TRUE])
         IN IF starred THEN added ELSE [added EXCEPT ![1] = [starred |-> FALSE]]

\* get_source and the test of source.star
StartStar(w, sid, starred) ==
    /\ CanStart(w)
    /\ nreq' = nreq + 1
    /\ LET op == IF starred THEN "add_star" ELSE "remove_star"
       IN
       IF get_source_aborts(sid)
       THEN /\ ev' = Event(w, op, "abort", sid) @@ [status |-> 404]
            /\ UNCHANGED req
       ELSE /\ ev' = Event(w, op, "read", sid) @@ [found |-> source_star(sid) # NoRow]
            /\ SetReq(w, [op |-> op, sid |-> sid, starred |-> starred,
                          found |-> source_star(sid) # NoRow])
    /\ UNCHANGED <<sources, subs, replies, files, dirs, keys, queue, next_job, stars>>
    /\ UNCHANGED authVars

\* the insert or the update, and db_session.commit()
StarCommit(w) ==
    /\ req[w].op \in {"add_star", "remove_star"}
    /\ LET r == req[w]
       IN /\ stars' = [stars EXCEPT ![r.sid] = make_star(r.sid, r.found, r.starred)]
          /\ ev' = Event(w, r.op, "commit", r.sid)
                     @@ [found |-> r.found, created |-> ~r.found,
                         stars_before |-> stars[r.sid], status |-> 302]
    /\ SetReq(w, Idle)
    /\ UNCHANGED <<sources, subs, replies, files, dirs, keys, queue, next_job, nreq>>
    /\ UNCHANGED authVars

StarNext ==
    \/ \E w \in Workers, sid \in Sids, starred \in BOOLEAN : StartStar(w, sid, starred)
    \/ \E w \in Workers : StarCommit(w)

(***************************************************************************)
(* col_delete(), journalist.py 560-572: delete_collection for each         *)
(* selected source in turn                                                 *)
(***************************************************************************)
\* request.form.getlist('cols_selected'), in the order of the form
ColSeqs == {<<>>, <<"c1">>, <<"c2">>, <<"c1", "c2">>}

\* lines 562-563: nothing selected
StartColDelete(w, cols) ==
    /\ CanStart(w)
    /\ nreq' = nreq + 1
    /\ IF Len(cols) < 1
       THEN /\ ev' = Event(w, "col_delete", "empty", cols)
                       @@ [status |-> 302,
                           flashes |-> <<[msg |-> "No collections selected to delete!",
                                          category |-> "error"]>>]
            /\ UNCHANGED req
       ELSE /\ ev' = Event(w, "col_delete", "start", cols)
            /\ SetReq(w, [op |-> "col_delete", cols |-> cols, idx |-> 1, pc |-> 1,
                          enqueued |-> {}, destroyed |-> {}, deleted |-> {}])
    /\ UNCHANGED <<sources, subs, replies, files, dirs, keys, queue, next_job>>
    /\ UNCHANGED <<authVars, stars>>

\* one statement of delete_collection for cols[idx] (lines 565-566); after
\* the last source the flash and the redirect (lines 567-572)
ColDeleteStep(w) ==
    /\ req[w].op = "col_delete"
    /\ LET r == req[w]
           sid == r.cols[r.idx]
           steps == delete_collection_steps(sid)
           step == steps[r.pc]
           aborts == step = "delete_row" /\ get_source_aborts(sid)
           jobs == IF step = "enqueue" THEN delete_collection_jobs(sid, next_job) ELSE {}
           enqueued == r.enqueued \cup jobs
           destroyed == IF step = "delete_reply_keypair"
                        THEN r.destroyed \cup {sid} ELSE r.destroyed
           deleted == IF step = "delete_row" /\ ~aborts
                      THEN r.deleted \cup {sid} ELSE r.deleted
           last == r.pc = Len(steps) /\ r.idx = Len(r.cols)
           done == [cols |-> r.cols, enqueued |-> enqueued, destroyed |-> destroyed,
                    deleted |-> deleted]
       IN
       /\ queue' = queue \cup jobs
       /\ next_job' = IF step = "enqueue" THEN next_job + 1 ELSE next_job
       /\ keys' = IF step = "delete_reply_keypair" THEN keys \ {sid} ELSE keys
       /\ IF step = "delete_row" /\ ~aborts
          THEN /\ sources' = [sources EXCEPT ![sid] = NoRow]
               /\ subs' = [i \in SubIds |->
                      IF i \in collectionSet(sid) THEN NoRow ELSE subs[i]]
          ELSE UNCHANGED <<sources, subs>>
       /\ IF aborts
          THEN /\ SetReq(w, Idle)
               /\ ev' = Event(w, r.op, "abort", sid)
                          @@ done @@ [status |-> 404, flashes |-> <<>>]
          ELSE IF last
          THEN /\ SetReq(w, Idle)
               /\ ev' = Event(w, r.op, "return", sid)
                          @@ done
                          @@ [status |-> 302,
                              flashes |-> <<[msg |-> "{} {} deleted",
                                             arg |-> <<Len(r.cols),
                                                       IF Len(r.cols) = 1
                                                       THEN "collection"
                                                       ELSE "collections">>,
                                             category |-> "notification"]>>]
          ELSE /\ SetReq(w, [r EXCEPT !.idx = IF r.pc = Len(steps) THEN r.idx + 1
                                               ELSE r.idx,
                                      !.pc = IF r.pc = Len(steps) THEN 1 ELSE r.pc + 1,
                                      !.enqueued = enqueued,
                                      !.destroyed = destroyed,
                                      !.deleted = deleted])
               /\ ev' = Event(w, r.op, step, sid) @@ done
    /\ UNCHANGED <<replies, files, dirs, nreq>>
    /\ UNCHANGED <<authVars, stars>>

ColDeleteNext ==
    \/ \E w \in Workers, cols \in ColSeqs : StartColDelete(w, cols)
    \/ \E w \in Workers : ColDeleteStep(w)
    \/ RunTask

(***************************************************************************)
(* Claims about the collection operations                                  *)
(***************************************************************************)
IsPrefix(a, b) == Len(a) <= Len(b) /\ \A i \in 1..Len(a) : a[i] = b[i]

DeleteOrder == <<"enqueue", "delete_reply_keypair", "delete_row">>

DeleteReturned == ev.op = "col_delete_single" /\ ev.step = "return"

\* C6: within one delete the erase job is enqueued first, the keypair is
\* destroyed second and the record deletion is committed last; delete returns
\* the job with the commit, whether or not the job has run.
C6_DeleteOrder ==
    /\ \A w \in Workers :
          req[w].op = "col_delete_single"
          => (/\ IsPrefix(req[w].trace, DeleteOrder)
              /\ Len(req[w].trace) = req[w].pc - 1
              /\ Len(req[w].trace) >= 1 => req[w].job >= 1)
    /\ DeleteReturned
          => (/\ ev.trace = DeleteOrder
              /\ ev.job >= 1
              /\ ev.enqueued = {[job |-> ev.job, func |-> "delete_source_directory",
                                 arg |-> ev.sid]}
              /\ ev.sid \notin ev.before.keys
              /\ ev.before.sources[ev.sid] # NoRow
              /\ ~Live(ev.sid))

\* delete has returned, the record is gone, the directory and its files are
\* still there and the job waits in the queue
C6_Witness ==
    /\ DeleteReturned
    /\ ~Live(ev.sid)
    /\ ev.sid \in dirs
    /\ \E f \in files : f.sid = ev.sid
    /\ \E t \in queue : t.job = ev.job

\* C7: a delete of a collection without submissions destroys the keypair and
\* deletes the record, and enqueues no job for a file.
C7_DeleteEmptyCollection ==
    (DeleteReturned
        /\ {i \in SubIds : ev.before.subs[i] # NoRow
                              /\ ev.before.subs[i].source = ev.sid} = {})
    => (/\ ev.sid \notin keys
        /\ ~Live(ev.sid)
        /\ \A t \in ev.enqueued : t.func = "delete_source_directory")

\* the delete of c2, which never had a submission, has returned
C7_Witness ==
    /\ DeleteReturned
    /\ ev.sid = "c2"
    /\ ev.before.sources["c2"] # NoRow
    /\ "c2" \notin keys
    /\ ~Live("c2")

\* C8: a rename that commits leaves the new designation stored and every
\* submission row of the collection with a filename that embeds it; a rename
\* that fails leaves the stored designation and every stored filename as they
\* were, also when it failed at the second of two files.
C8_RenameAllOrNothing ==
    /\ (ev.op = "generate_code" /\ ev.step = "commit")
       => (/\ sources[ev.sid].journalist_designation = ev.designation
           /\ \A i \in collectionSet(ev.sid) :
                 /\ subs[i].filename.name = journalist_filename(ev.designation)
                 /\ subs[i].filename.index = ev.before.subs[i].filename.index)
    /\ (ev.op = "generate_code" /\ ev.step = "abort")
       => (/\ sources = ev.before.sources
           /\ subs = ev.before.subs)

\* the rename of the second file failed after the first file was renamed
C8_Witness ==
    /\ ev.op = "generate_code" /\ ev.step = "abort" /\ ev.status = 500
    /\ ev.failed = 2
    /\ files # ev.before.files
    /\ Live(ev.sid)

\* C9: a reply with an empty message leaves the interaction counter, the
\* replies and the files as they were and flashes the validation error.
C9_EmptyReplyRejected ==
    (ev.op = "reply" /\ ev.before.sources[ev.sid] # NoRow /\ ev.msg = "")
    => (/\ ev.step = "rejected"
        /\ sources = ev.before.sources
        /\ replies = ev.before.replies
        /\ files = ev.before.files
        /\ \A w \in Workers : req[w].op = "reply" => req[w].msg # ""
        /\ ev.flashes = <<[msg |-> "You cannot send an empty reply!",
                           category |-> "error"]>>)

\* an empty reply to a live collection was rejected
C9_Witness ==
    /\ ev.op = "reply" /\ ev.step = "rejected" /\ ev.msg = ""
    /\ Live(ev.sid)

RepliesTo(sid) == {i \in 1..Len(replies) : replies[i].source = sid}

\* C10 (as stated): no increment is lost: the stored counter of a collection
\* is its initial value plus the number of its replies, and no two replies have
\* the same filename.
C10_NoLostIncrement ==
    /\ \A sid \in Sids :
          Live(sid) => sources[sid].interaction_count
                         = InitialCount(sid) + Cardinality(RepliesTo(sid))
    /\ \A i, j \in 1..Len(replies) :
          (i # j /\ replies[i].source = replies[j].source)
          => replies[i].filename # replies[j].filename

ReplyEnded ==
    /\ ev.op = "reply"
    /\ ev.step \in {"rejected", "abort", "commit_failed", "commit"}
    /\ ev.before.sources[ev.sid] # NoRow

\* C11 (as stated): a reply that ends, whether rejected as empty, failed in
\* the encryption, failed in the commit or stored, has flashed exactly one
\* message and redirects to the collection.
C11_OneNotification ==
    ReplyEnded => (/\ Len(ev.flashes) = 1
                   /\ ev.status = 302
                   /\ ev.redirect = "col")

\* C16 (as stated): no two live collections have the same designation.
C16_UniqueDesignations ==
    \A s1, s2 \in Sids :
       (s1 # s2 /\ Live(s1) /\ Live(s2))
       => sources[s1].journalist_designation # sources[s2].journalist_designation

ExportEv == ev.op = "download"

FlagChanged(i) ==
    /\ ev.before.subs[i] # NoRow
    /\ subs[i] # NoRow
    /\ subs[i].downloaded # ev.before.subs[i].downloaded

\* C12: an export that fails to build its archive changes no downloaded
\* flag, and a downloaded flag changes only in the commit of an export whose
\* returned archive holds that submission's file.
C12_MarkedOnlyAfterArchive ==
    /\ (ExportEv /\ ev.step = "archive_failed") => \A i \in SubIds : ~FlagChanged(i)
    /\ \A i \in SubIds :
          (ev.op # "none" /\ FlagChanged(i))
          => (/\ ExportEv /\ ev.step = "commit"
              /\ path(subs[i].source, subs[i].filename) \in ev.archive)

C12_Witness ==
    /\ ExportEv /\ ev.step = "archive_failed"
    /\ \E i \in ev.items : ~subs[i].downloaded

\* C13: every export whose resolved set of submissions is empty ends with
\* one notification, builds no archive and changes no downloaded flag.
C13_EmptySelectionNotified ==
    (ExportEv /\ ev.items = {} /\ ev.step # "abort")
    => (/\ ev.step = "empty"
        /\ Len(ev.flashes) = 1
        /\ ev.archive = None
        /\ \A i \in SubIds : ~FlagChanged(i))

\* C14: the commit of an export of a non-empty selection leaves every
\* selected submission downloaded and every other submission as it was.
C14_ExportMarksSelection ==
    (ExportEv /\ ev.step = "commit" /\ ev.items # {})
    => \A i \in SubIds :
          /\ (i \in ev.items /\ subs[i] # NoRow) => subs[i].downloaded
          /\ i \notin ev.items => subs[i] = ev.before.subs[i]

C14_Witness ==
    /\ ExportEv /\ ev.step = "commit" /\ ev.kind = "all" /\ ev.sid = {"c1"}
    /\ ev.items = {1, 2}
    /\ ev.archive = {path("c1", f) : f \in DocNames}
    /\ ~ev.before.subs[1].downloaded /\ ~ev.before.subs[2].downloaded
    /\ subs[1].downloaded /\ subs[2].downloaded

BulkDeleteEv == ev.op = "bulk_delete"

\* C18: a bulk deletion changes no record while it enqueues; at its commit
\* it has enqueued exactly one secure_unlink job per selected submission,
\* the selected records are gone and every other record is as it was.
C18_BulkDelete ==
    /\ (BulkDeleteEv /\ ev.step = "enqueue") => subs = ev.before.subs
    /\ (BulkDeleteEv /\ ev.step = "commit")
       => LET selected == Prefix(ev.items, Len(ev.items))
          IN /\ Cardinality(ev.enqueued) = Len(ev.items)
             /\ \A i \in selected :
                   \E t \in ev.enqueued :
                      /\ t.func = "secure_unlink"
                      /\ t.arg = path(ev.sid, ev.filenames[i])
             /\ \A t \in ev.enqueued :
                   \E i \in selected : t.arg = path(ev.sid, ev.filenames[i])
             /\ \A i \in SubIds :
                   subs[i] = IF i \in selected THEN NoRow ELSE ev.before.subs[i]

C18_Witness ==
    /\ BulkDeleteEv /\ ev.step = "commit" /\ ev.items = <<2>>
    /\ ev.before.subs[2] # NoRow /\ subs[2] = NoRow /\ subs[1] # NoRow
    /\ \A t \in ev.enqueued : t.arg = path("c1", Fn(2, "alpha_one", "doc"))

\* C15: every source has at most one SourceStar row, and a star request
\* creates a row only when the source has none.
C15_AtMostOneStar ==
    /\ \A sid \in Sids : Len(stars[sid]) <= 1
    /\ (ev.op \in {"add_star", "remove_star"} /\ ev.step = "commit" /\ ev.created)
       => ev.stars_before = <<>>

Crashed == ev.op = "col_delete_single" /\ ev.step = "crash"

\* C20: a crash in the middle of a delete undoes and completes nothing: the
\* job enqueued and the keypair destroyed by the statements already run stay
\* so, and the record, which the last statement deletes, is not deleted by
\* this request.
C20_CrashLeavesDeleteHalfDone ==
    Crashed
    => (/\ Snapshot = ev.before
        /\ Len(ev.trace) >= 1 => ev.enqueued # {}
        /\ Len(ev.trace) >= 2 => ev.sid \notin keys
        /\ \A i \in 1..Len(ev.trace) : ev.trace[i] # "delete_row")

C20_Witness ==
    /\ Crashed /\ ev.sid = "c1"
    /\ Live("c1") /\ "c1" \notin keys /\ "c1" \notin dirs
    /\ queue = {} /\ \A w \in Workers : req[w] = Idle

\* C21: the artifact a reply writes never takes the place of a file that an
\* earlier reply to the same source wrote.
C21_NoArtifactOverwritten ==
    (ev.op = "reply" /\ ev.step = "encrypt")
    => path(ev.sid, ev.filename) \notin ev.before.files

\* C22: a rename that found every submission of the source backed by its
\* file leaves, whether it commits or fails, every submission of the source
\* backed by a file of exactly the recorded name.
C22_RecordsNameExistingFiles ==
    (/\ ev.op = "generate_code" /\ ev.step \in {"abort", "commit"}
     /\ ev.before.sources[ev.sid] # NoRow
     /\ \A i \in SubIds :
           (ev.before.subs[i] # NoRow /\ ev.before.subs[i].source = ev.sid)
           => path(ev.sid, ev.before.subs[i].filename) \in ev.before.files)
    => \A i \in collectionSet(ev.sid) : path(ev.sid, subs[i].filename) \in files

\* C23: once a source's row is deleted and its directory erased, no Reply
\* row refers to the source and no file of the source is in the store.
C23_NothingLeftAfterDelete ==
    \A sid \in Sids :
       (~Live(sid) /\ sid \notin dirs)
       => (/\ RepliesTo(sid) = {}
           /\ \A f \in files : f.sid # sid)

\* C24: a delete that ends with NotFound has enqueued no job, has destroyed
\* no keypair and has deleted no source.
C24_NotFoundHasNoEffect ==
    (ev.op = "col_delete" /\ ev.step = "abort")
    => (/\ ev.enqueued = {}
        /\ ev.destroyed = {}
        /\ ev.deleted = {})

Gone(sid) ==
    /\ ~Live(sid)
    /\ sid \notin keys
    /\ sid \notin dirs
    /\ \A f \in files : f.sid # sid

\* C19: when the worker runs every enqueued job, a source whose row has been
\* deleted is eventually without row, keypair and directory, and stays so.
C19_DeleteCompletes ==
    \A sid \in Sids :
       /\ ~Live(sid) ~> Gone(sid)
       /\ [](Gone(sid) => []Gone(sid))

C19_Witness ==
    /\ Gone("c1")
    /\ ev.op = "task" /\ ev.sid = "c1"
    /\ ev.before.sources["c1"] = NoRow /\ "c1" \in ev.before.dirs


Init == AuthInit /\ ColInit

Next == AuthNext \/ ColNext

Spec == Init /\ [][Next]_vars

\* the login interface alone
SpecAuth == Init /\ [][AuthNext]_vars

\* the collection operations alone, the journalists table as installed
ColOnlyInit == Init /\ is_totp = [u \in Users |-> TRUE]

SpecCol == ColOnlyInit /\ [][ColNext]_vars

\* the web process dies while a worker serves col_delete_single: the request
\* is gone, the database, the keyring, the store and the job queue stay as
\* they are
Crash(w) ==
    /\ req[w].op = "col_delete_single"
    /\ SetReq(w, Idle)
    /\ ev' = Event(w, req[w].op, "crash", req[w].sid)
               @@ [trace |-> req[w].trace, enqueued |-> req[w].enqueued]
    /\ UNCHANGED <<sources, subs, replies, files, dirs, keys, queue, next_job, nreq>>
    /\ UNCHANGED <<authVars, stars>>

CrashNext ==
    \/ \E w \in Workers, sid \in Sids : StartDelete(w, sid)
    \/ \E w \in Workers : DeleteStep(w)
    \/ \E w \in Workers : Crash(w)
    \/ RunTask

\* deletions that the process may abandon at any statement
SpecCrash == ColOnlyInit /\ [][CrashNext]_vars

\* deletions, the replies that race with them, and a worker that runs
\* every enqueued job
DeleteNext ==
    \/ \E w \in Workers, sid \in Sids : StartDelete(w, sid)
    \/ \E w \in Workers : DeleteStep(w)
    \/ \E w \in Workers, sid \in Sids, msg \in Messages : StartReply(w, sid, msg)
    \/ \E w \in Workers : ReplyEncrypt(w)
    \/ \E w \in Workers : ReplyCommit(w)
    \/ RunTask

SpecDeleteFair == ColOnlyInit /\ [][DeleteNext]_vars /\ WF_vars(RunTask)

\* replies only: no source is renamed or deleted
ReplyNext ==
    \/ \E w \in Workers, sid \in Sids, msg \in Messages : StartReply(w, sid, msg)
    \/ \E w \in Workers : ReplyEncrypt(w)
    \/ \E w \in Workers : ReplyCommit(w)

SpecReply == ColOnlyInit /\ [][ReplyNext]_vars

\* deletion of the sources selected on the index page
SpecColDelete == ColOnlyInit /\ [][ColDeleteNext]_vars

\* starring and unstarring
SpecStar == ColOnlyInit /\ [][StarNext]_vars

\* bulk export and bulk deletion of submissions
SpecBulk == ColOnlyInit /\ [][BulkNext]_vars

=============================================================================
